---------------------------- MODULE Spec2Model ----------------------------
(***************************************************************************)
(* A model of the Flipkart scraper: the browser-session lifecycle, the     *)
(* page fetch, the pagination loop and the hand-off to the database of     *)
(* src/src/scraper/flipkart_scraper.py, and the layout parser of           *)
(* src/src/scraper/parser.py.                                              *)
(*                                                                         *)
(* Strings of the program (texts, attribute values, URLs) are sequences of *)
(* one-character strings, so that strip() and startswith() are computed.   *)
(* An optional value (Python's None) is a record [some, val].              *)
(***************************************************************************)
EXTENDS Integers, Sequences, FiniteSets, TLC

VARIABLES
    max_pages,   \* config.scraper.max_pages, read-only after load
    inst,        \* the FlipkartScraper instance: page, context, browser, playwright
    opened,      \* the browser-side handles created so far
    closes,      \* per handle, the number of close()/stop() calls that completed
    started,     \* the number of runs (scrape_and_save calls) started so far
    frame,       \* per caller task, the locals of its scrape_and_save call chain
    hist,        \* per caller task, what the run did (observations, not program state)
    html,        \* the markup handed to FlipkartParser.parse_product_listings
    parsed       \* its return value, once it has returned

vars == <<max_pages, inst, opened, closes, started, frame, hist, html, parsed>>

(***************************************************************************)
(* Values                                                                  *)
(***************************************************************************)
None == [some |-> FALSE, val |-> <<>>]

Some(v) == [some |-> TRUE, val |-> v]

\* Python truthiness of an optional string: not None and not ''.
Truthy(o) == o.some /\ o.val # <<>>

Min(a, b) == IF a <= b THEN a ELSE b

(***************************************************************************)
(* str.strip(): leading and trailing whitespace removed.                   *)
(***************************************************************************)
\* The position of the first character of s, from i on, that is not whitespace.
RECURSIVE LStrip(_, _)
LStrip(s, i) == IF i <= Len(s) /\ s[i] = " " THEN LStrip(s, i + 1) ELSE i

\* The position of the last character of s, up to j, that is not whitespace.
RECURSIVE RStrip(_, _)
RStrip(s, j) == IF j >= 1 /\ s[j] = " " THEN RStrip(s, j - 1) ELSE j

Strip(s) == SubSeq(s, LStrip(s, 1), RStrip(s, Len(s)))

\* str.startswith(prefix)
StartsWith(s, prefix) ==
    Len(s) >= Len(prefix) /\ SubSeq(s, 1, Len(prefix)) = prefix

(***************************************************************************)
(* The document.  An element is [match, sub]: the container selectors it   *)
(* matches and, per field selector, what select_one finds under it.  What  *)
(* select_one finds is a node [found, text, attrs], found being "node",    *)
(* "none" (no match) or "raise" (the call raises).                         *)
(***************************************************************************)
NoAttrs == [a \in {} |-> <<>>]

NotFound == [found |-> "none", text |-> <<>>, attrs |-> NoAttrs]

Raises == [found |-> "raise", text |-> <<>>, attrs |-> NoAttrs]

Node(text, attrs) == [found |-> "node", text |-> text, attrs |-> attrs]

\* element.select_one(selector)
SelectOne(element, selector) ==
    IF selector \in DOMAIN element.sub THEN element.sub[selector] ELSE NotFound

\* found_element.get(attr)
Get(node, attr) ==
    IF attr \in DOMAIN node.attrs THEN Some(node.attrs[attr]) ELSE None

\* found_element.get_text(strip=True)
GetText(node) == Strip(node.text)

product_selectors ==
    << "[data-id]", "[data-tkid]", "._75nlfW", ".CGtC98", ".cPHDOP.col-12-12",
       ".DOjaWF.gdgoEp", ".DOjaWF.gdgoEp" >>

title_selectors ==
    << ".KzDlHZ", "._4rR01T", ".IRpwTa", "._2WkVRV", "a[title]", "KzDlHZ",
       "._2mylT6" >>

price_selectors ==
    << ".Nx9bqj._4b5DiR", ".yRaY8j.ZYYwLA", "._3tbFF2", ".Ce9jPB", "._2_R_DZ",
       "._3auQ3N" >>

image_selectors ==
    << "img[src]", ".DByuf4", "._2r_T1I img", ".CXW8mj img", ".yPq5Io",
       "img.DByuf4" >>

image_attrs == << "src", "data-src", "data-original" >>

url_prefixes == { <<"h", "t", "t", "p">>, <<"/", "/">> }

NA == <<"N", "/", "A">>

(***************************************************************************)
(* FlipkartParser._get_text_by_selectors                                   *)
(***************************************************************************)
RECURSIVE TextFrom(_, _, _)
TextFrom(element, selectors, i) ==
    IF i > Len(selectors) THEN None
    ELSE LET found_element == SelectOne(element, selectors[i])
             text == GetText(found_element)
         IN  IF found_element.found = "node" /\ text # <<>> THEN Some(text)
             ELSE IF found_element.found = "node"
                     /\ Truthy(Get(found_element, "title"))
                  THEN Get(found_element, "title")
             ELSE TextFrom(element, selectors, i + 1)

get_text_by_selectors(element, selectors) == TextFrom(element, selectors, 1)

(***************************************************************************)
(* FlipkartParser._get_image_by_selectors                                  *)
(***************************************************************************)
\* img_url and img_url.startswith(('http', '//'))
AcceptUrl_any(img_url) == Truthy(img_url)

AcceptUrl(img_url) ==
    Truthy(img_url) /\ \E p \in url_prefixes : StartsWith(img_url.val, p)

\* The first attribute of the node, from position k on, that holds an accepted URL.
RECURSIVE AttrFrom(_, _)
AttrFrom(img_element, k) ==
    IF k > Len(image_attrs) THEN None
    ELSE LET img_url == Get(img_element, image_attrs[k])
         IN  IF AcceptUrl(img_url) THEN img_url ELSE AttrFrom(img_element, k + 1)

RECURSIVE ImageFrom(_, _, _)
ImageFrom(element, selectors, i) ==
    IF i > Len(selectors) THEN None
    ELSE LET img_element == SelectOne(element, selectors[i])
             img_url == IF img_element.found = "node"
                        THEN AttrFrom(img_element, 1) ELSE None
         IN  IF img_url.some THEN img_url
             ELSE ImageFrom(element, selectors, i + 1)

get_image_by_selectors(element, selectors) == ImageFrom(element, selectors, 1)

(***************************************************************************)
(* FlipkartParser._extract_product_info: None, or the product record.      *)
(***************************************************************************)
\* 'price': price.strip() if price else 'N/A'
PriceField(price) == IF Truthy(price) THEN Strip(price.val) ELSE NA

extract_product_info(element) ==
    LET title == get_text_by_selectors(element, title_selectors)
        price == get_text_by_selectors(element, price_selectors)
        image_url == get_image_by_selectors(element, image_selectors)
    IN  IF ~Truthy(title) THEN None
        ELSE Some([ title |-> Strip(title.val),
                    price |-> PriceField(price),
                    image_url |-> IF Truthy(image_url) THEN image_url.val ELSE <<>> ])

(***************************************************************************)
(* FlipkartParser.parse_product_listings                                   *)
(***************************************************************************)
\* soup.select(selector): the matching elements in document order
Select(doc, selector) == SelectSeq(doc, LAMBDA e : selector \in e.match)

ElementsFrom_union(doc, i) ==
    SelectSeq(doc, LAMBDA e : \E k \in i .. Len(product_selectors) :
                                  product_selectors[k] \in e.match)

RECURSIVE ElementsFrom(_, _)
ElementsFrom(doc, i) ==
    IF i > Len(product_selectors) THEN <<>>
    ELSE LET elements == Select(doc, product_selectors[i])
         IN  IF elements # <<>> THEN elements ELSE ElementsFrom(doc, i + 1)

product_elements(doc) == ElementsFrom(doc, 1)

\* if product_data and product_data.get('title')
KeepProduct_always(product_data) == product_data.some

KeepProduct(product_data) == product_data.some /\ product_data.val.title # <<>>

\* for element in product_elements: the records kept, from position i on
RECURSIVE ProductsOf(_, _)
ProductsOf(elements, i) ==
    IF i > Len(elements) THEN <<>>
    ELSE LET product_data == extract_product_info(elements[i])
         IN  (IF KeepProduct(product_data) THEN <<product_data.val>> ELSE <<>>)
             \o ProductsOf(elements, i + 1)

parse_product_listings(doc) == ProductsOf(product_elements(doc), 1)

(***************************************************************************)
(* Synthetic markup.  The elements use two selectors of each cascade; one  *)
(* field varies at a time around a well-formed product.                    *)
(***************************************************************************)
MaxContainers == 2

Http == <<"h", "t", "t", "p", ":">>

Https == <<"h", "t", "t", "p", "s">>

Cdn == <<"/", "/", "c">>

Rel == <<"/", "r">>

Htt == <<"h", "t", "t">>

TitleAttr(v) == "title" :> v

Element(match, title1, title2, price1, price2, img1, img2) ==
    [ match |-> match,
      sub |-> (".KzDlHZ" :> title1) @@ ("a[title]" :> title2)
              @@ (".Nx9bqj._4b5DiR" :> price1) @@ ("._3auQ3N" :> price2)
              @@ ("img[src]" :> img1) @@ (".CXW8mj img" :> img2) ]

Title1Nodes ==
    { NotFound, Raises, Node(<<"A">>, NoAttrs), Node(<<" ", "B", " ">>, NoAttrs),
      Node(<<" ">>, TitleAttr(<<" ">>)), Node(<<>>, TitleAttr(<<"T">>)) }

Title2Nodes == { NotFound, Node(<<>>, TitleAttr(<<"L">>)) }

Price1Nodes ==
    { NotFound, Node(<<"9">>, NoAttrs), Node(<<>>, TitleAttr(<<" ">>)),
      Node(<<" ">>, NoAttrs), Node(<<>>, TitleAttr(<<"7", " ">>)) }

Price2Nodes == { NotFound, Node(<<" ", "5">>, NoAttrs) }

Img1Nodes ==
    { NotFound, Raises, Node(<<>>, "src" :> Http), Node(<<>>, "src" :> Rel),
      Node(<<>>, ("src" :> Rel) @@ ("data-src" :> Cdn)),
      Node(<<>>, ("src" :> <<>>) @@ ("data-src" :> Htt) @@ ("data-original" :> Https)),
      Node(<<>>, "src" :> Htt) }

Img2Nodes == { NotFound, Node(<<>>, "data-original" :> Https) }

Matches ==
    { {"[data-id]"}, {"._75nlfW"}, {"[data-id]", "._75nlfW"}, {".DOjaWF.gdgoEp"}, {} }

GoodTitle == Node(<<"A">>, NoAttrs)

GoodPrice == Node(<<"9">>, NoAttrs)

GoodImg == Node(<<>>, "src" :> Http)

Elements ==
    { Element({"[data-id]"}, t1, t2, GoodPrice, NotFound, GoodImg, NotFound) :
          t1 \in Title1Nodes, t2 \in Title2Nodes }
    \cup { Element({"[data-id]"}, GoodTitle, NotFound, p1, p2, GoodImg, NotFound) :
               p1 \in Price1Nodes, p2 \in Price2Nodes }
    \cup { Element({"[data-id]"}, GoodTitle, NotFound, GoodPrice, NotFound, i1, i2) :
               i1 \in Img1Nodes, i2 \in Img2Nodes }
    \cup { Element(m, GoodTitle, NotFound, GoodPrice, NotFound, GoodImg, NotFound) :
               m \in Matches }

RECURSIVE SeqsUpTo(_, _)
SeqsUpTo(S, n) ==
    IF n = 0 THEN { <<>> }
    ELSE LET shorter == SeqsUpTo(S, n - 1)
         IN  shorter \cup { Append(d, e) : d \in shorter, e \in S }

Docs == SeqsUpTo(Elements, MaxContainers)

(***************************************************************************)
(* The scraper.  A caller task runs scrape_and_save; frame[t].pc is the    *)
(* await it is suspended at.  An await ends "ok", raises an Exception      *)
(* ("Error") or raises asyncio.CancelledError, which is no Exception.      *)
(***************************************************************************)
Tasks == { "t1", "t2" }

MaxRuns == 2

MaxRequestedPages == 3

\* ScraperConfig.max_pages, the default; a config file may set less
default_max_pages == 3

Fields == { "page", "context", "browser", "playwright" }

Handles == Fields \X (1 .. MaxRuns)

\* The value of an attribute of the instance: not set, None, or the object run h made.
Unset == [st |-> "unset", h |-> 0]

NoneRef == [st |-> "None", h |-> 0]

Ref(h) == [st |-> "obj", h |-> h]

\* What _get_page_content returns: None, or the page's content.
NoContent == [kind |-> "None", doc |-> <<>>]

Html(doc) == [kind |-> "html", doc |-> doc]

\* The listing the site serves for page number n: a product with a price, a
\* container without a title, and a product without a price, the titles being the
\* page's own.
PageChar == << "1", "2", "3", "4", "5" >>

ListingDoc(n) ==
    << Element({"[data-id]"}, Node(<<"A", PageChar[n]>>, NoAttrs), NotFound, GoodPrice,
               NotFound, GoodImg, NotFound),
       Element({"[data-id]"}, NotFound, NotFound, GoodPrice, NotFound, GoodImg, NotFound),
       Element({"[data-id]"}, Node(<<" ", "B", PageChar[n], " ">>, NoAttrs), NotFound,
               NotFound, NotFound, Node(<<>>, "src" :> Rel), NotFound) >>

\* A layout that no container selector matches.
DocMiss ==
    << Element({}, GoodTitle, NotFound, GoodPrice, NotFound, GoodImg, NotFound) >>

\* What page.content() may return for page number n.
PageContents(n) == { Html(ListingDoc(n)), Html(DocMiss) }

selectors_to_try ==
    << "[data-id]", "[data-tkid]", ".DOjaWF.gdgoEp", ".tUxRFH", "._75nlfW",
       ".cPHDOP.col-12-12" >>

IdleFrame ==
    [ pc |-> "idle", pages |-> 0, run |-> 0, page_num |-> 0, all_products |-> <<>>,
      selector |-> 0, product_found |-> FALSE, content |-> NoContent,
      exc |-> "none", outcome |-> "none", result |-> 0 ]

IdleHist ==
    [ setup |-> "none", cancelled_at |-> "none", fetched |-> <<>>, served |-> <<>>,
      sleeps |-> 0, cleanup |-> "none", search |-> "none", db_calls |-> <<>>,
      peers |-> {}, foreign |-> FALSE ]

\* The task is inside a call of scrape_and_save.
Active(t) == frame[t].pc \notin {"idle", "returned"}

\* The observations of a run once it has navigated, waited on, read or closed the
\* object an attribute of the instance refers to: foreign, if the object was made
\* by a run that has been active during this one.
Touch(h, ref) ==
    [h EXCEPT !.foreign = @ \/ (ref.st = "obj" /\ ref.h \in h.peers)]

NewInstance ==
    [ page |-> NoneRef, context |-> Unset, browser |-> NoneRef, playwright |-> Unset ]

RunInit ==
    /\ inst = NewInstance
    /\ opened = {}
    /\ closes = [h \in Handles |-> 0]
    /\ started = 0
    /\ frame = [t \in Tasks |-> IdleFrame]
    /\ hist = [t \in Tasks |-> IdleHist]

Init ==
    /\ max_pages \in 1 .. default_max_pages
    /\ RunInit
    /\ html = <<>>
    /\ parsed = None

(***************************************************************************)
(* Where exceptions go.                                                    *)
(***************************************************************************)
\* search_products, `except Exception`: an Exception is logged and dropped, anything
\* else stays pending through the finally block.
SearchCatch_reraise(e) == e

SearchCatch(e) == IF e = "Error" THEN "none" ELSE e

\* search_products, `finally`: where control goes when the try block is left,
\* normally (e = "none") or by an exception.
AfterTry_except_only(e) == IF e = "CancelledError" THEN "search_exit" ELSE "cleanup_page"

AfterTry(e) == "cleanup_page"

\* scrape_and_save, `except Exception`: return 0.
ScrapeCatch_reraise(e) == e

ScrapeCatch(e) == IF e = "Error" THEN "none" ELSE e

\* range(1, min(pages + 1, self.config.max_pages + 1)): the stop value
RangeStop_unclamped(pages) == pages + 1

RangeStop(pages) == Min(pages + 1, max_pages + 1)

\* all_products.extend(products)
Extend_front(all_products, products) == products \o all_products

Extend(all_products, products) == all_products \o products

build_search_url(keyword, page) ==
    [base |-> "https://www.flipkart.com", path |-> "/search", q |-> keyword, page |-> page]

\* FlipkartParser.parse_product_listings, tabulated over the documents the site
\* serves.
Listings ==
    [ doc \in UNION { { c.doc : c \in PageContents(n) } : n \in DOMAIN PageChar } |->
          parse_product_listings(doc) ]

parse_product_data(doc) == Listings[doc]

\* The frame once an exception e has left the try block of search_products.
Raised(f, e) ==
    [f EXCEPT !.exc = SearchCatch(e), !.pc = AfterTry(e), !.selector = 0,
              !.product_found = FALSE, !.content = NoContent]

\* The frame once _get_page_content has returned html_content to the page loop.
Fetched(f, html_content) ==
    [f EXCEPT !.all_products = IF html_content.kind = "html"
                               THEN Extend(@, parse_product_data(html_content.doc))
                               ELSE @,
              !.pc = "loop", !.selector = 0, !.product_found = FALSE,
              !.content = NoContent]

(***************************************************************************)
(* The end of the call.  Nothing is awaited between the end of             *)
(* _cleanup_browser and the return of scrape_and_save, so it is one step:  *)
(* search_products re-raises the pending exception or returns              *)
(* all_products; scrape_and_save returns 0 for nothing, or hands the batch *)
(* to insert_products_batch, whose commit succeeds, fails with an          *)
(* SQLAlchemyError (rolled back, 0 reported), or which raises something    *)
(* else.  The table itself is the database's and is not modelled.          *)
(***************************************************************************)
Commits == { "ok", "sqlerror", "raise" }

\* DatabaseManager.insert_products_batch: the count it returns
insert_products_batch(products_data, commit) ==
    IF commit = "ok" THEN Len(products_data) ELSE 0

\* if not products: return 0
NothingToSave_never(products) == FALSE

NothingToSave(products) == products = <<>>

\* return saved_count
SavedCount_len(products, saved_count) == Len(products)

SavedCount(products, saved_count) == saved_count

\* The exception scrape_and_save ends with ("none": it returns), given the frame at
\* the end of search_products.
ExitExc(f, commit) ==
    IF f.exc # "none" THEN ScrapeCatch(f.exc)
    ELSE IF ~NothingToSave(f.all_products) /\ commit = "raise" THEN ScrapeCatch("Error")
    ELSE "none"

ExitResult(f, commit) ==
    IF f.exc # "none" \/ NothingToSave(f.all_products) \/ commit = "raise" THEN 0
    ELSE SavedCount(f.all_products, insert_products_batch(f.all_products, commit))

ExitFrame(f, commit) ==
    [f EXCEPT !.pc = "returned",
              !.exc = ExitExc(f, commit),
              !.outcome = IF ExitExc(f, commit) = "none" THEN "returned" ELSE "raised",
              !.result = ExitResult(f, commit)]

ExitHist(f, h, commit) ==
    [h EXCEPT !.search = IF f.exc # "none" THEN "raised" ELSE "returned",
              !.db_calls = IF f.exc = "none" /\ ~NothingToSave(f.all_products)
                           THEN Append(@, [ products |-> f.all_products,
                                            commit |-> commit,
                                            cleanup |-> h.cleanup ])
                           ELSE @]

\* Task t goes on with frame f and observations h.
Goes(t, f, h) ==
    IF f.pc = "search_exit"
    THEN \E commit \in IF f.exc = "none" /\ ~NothingToSave(f.all_products)
                        THEN Commits ELSE {"ok"} :
            /\ frame' = [frame EXCEPT ![t] = ExitFrame(f, commit)]
            /\ hist' = [hist EXCEPT ![t] = ExitHist(f, h, commit)]
    ELSE /\ frame' = [frame EXCEPT ![t] = f]
         /\ hist' = [hist EXCEPT ![t] = h]

(***************************************************************************)
(* scrape_and_save is called: search_products starts and reaches the first *)
(* await of _setup_browser.  The frame of the caller's previous call is    *)
(* gone.                                                                   *)
(***************************************************************************)
StartWith(t, pages) ==
    /\ frame[t].pc \in {"idle", "returned"}
    /\ started < MaxRuns
    /\ frame' = [frame EXCEPT ![t] =
                    [IdleFrame EXCEPT !.pc = "setup_playwright", !.pages = pages,
                                      !.run = started + 1]]
    /\ hist' = [u \in Tasks |->
                    IF u = t
                    THEN [IdleHist EXCEPT !.peers =
                              { frame[v].run : v \in { w \in Tasks \ {t} : Active(w) } }]
                    ELSE IF Active(u) THEN [hist[u] EXCEPT !.peers = @ \cup {started + 1}]
                    ELSE hist[u]]
    /\ started' = started + 1
    /\ UNCHANGED <<max_pages, inst, opened, closes, html, parsed>>

Start(t) == \E pages \in 1 .. MaxRequestedPages : StartWith(t, pages)

(***************************************************************************)
(* _setup_browser: start the driver, launch the browser, open a context,   *)
(* open a page.  A failure is logged and re-raised to search_products.     *)
(***************************************************************************)
SetupField ==
    [ setup_playwright |-> "playwright", setup_browser |-> "browser",
      setup_context |-> "context", setup_page |-> "page" ]

SetupNext ==
    [ setup_playwright |-> "setup_browser", setup_browser |-> "setup_context",
      setup_context |-> "setup_page", setup_page |-> "loop" ]

SetupOk(t) ==
    LET f == frame[t]
        field == SetupField[f.pc]
    IN  /\ f.pc \in DOMAIN SetupField
        /\ inst' = [inst EXCEPT ![field] = Ref(f.run)]
        /\ opened' = opened \cup { <<field, f.run>> }
        /\ frame' = [frame EXCEPT ![t].pc = SetupNext[f.pc]]
        /\ hist' = [hist EXCEPT ![t].setup = IF f.pc = "setup_page" THEN "ok" ELSE @]
        /\ UNCHANGED <<max_pages, closes, started, html, parsed>>

SetupFails(t) ==
    /\ frame[t].pc \in DOMAIN SetupField
    /\ Goes(t, Raised(frame[t], "Error"), [hist[t] EXCEPT !.setup = "failed"])
    /\ UNCHANGED <<max_pages, inst, opened, closes, started, html, parsed>>

SetupCancelled(t) ==
    /\ frame[t].pc \in DOMAIN SetupField
    /\ Goes(t, Raised(frame[t], "CancelledError"),
            [hist[t] EXCEPT !.cancelled_at = "setup"])
    /\ UNCHANGED <<max_pages, inst, opened, closes, started, html, parsed>>

(***************************************************************************)
(* search_products, the page loop: the next page number, or the end of     *)
(* the try block.                                                          *)
(***************************************************************************)
NextPage(t) ==
    LET f == frame[t]
    IN  /\ f.pc = "loop"
        /\ f.page_num + 1 < RangeStop(f.pages)
        /\ frame' = [frame EXCEPT ![t].page_num = f.page_num + 1, ![t].pc = "goto"]
        /\ hist' = [hist EXCEPT ![t] =
                        Touch([@ EXCEPT !.fetched =
                                   Append(@, build_search_url("kw", f.page_num + 1))],
                              inst.page)]
        /\ UNCHANGED <<max_pages, inst, opened, closes, started, html, parsed>>

LoopEnds(t) ==
    LET f == frame[t]
    IN  /\ f.pc = "loop"
        /\ ~(f.page_num + 1 < RangeStop(f.pages))
        /\ Goes(t, [f EXCEPT !.pc = AfterTry("none")], hist[t])
        /\ UNCHANGED <<max_pages, inst, opened, closes, started, html, parsed>>

(***************************************************************************)
(* _get_page_content: goto, the readiness selectors, content, the delay.   *)
(* Any Exception makes it return None at once.                             *)
(***************************************************************************)
FetchFails(t) ==
    /\ frame[t].pc \in {"goto", "content"}
    /\ frame' = [frame EXCEPT ![t] = Fetched(@, NoContent)]
    /\ hist' = [hist EXCEPT ![t].served = Append(@, NoContent)]
    /\ UNCHANGED <<max_pages, inst, opened, closes, started, html, parsed>>

FetchCancelled(t) ==
    /\ frame[t].pc \in {"goto", "wait", "content", "sleep"}
    /\ Goes(t, Raised(frame[t], "CancelledError"),
            [hist[t] EXCEPT !.cancelled_at = "loop"])
    /\ UNCHANGED <<max_pages, inst, opened, closes, started, html, parsed>>

GotoOk(t) ==
    /\ frame[t].pc = "goto"
    /\ frame' = [frame EXCEPT ![t].pc = "wait", ![t].selector = 1]
    /\ hist' = [hist EXCEPT ![t] = Touch(@, inst.page)]
    /\ UNCHANGED <<max_pages, inst, opened, closes, started, html, parsed>>

WaitFound(t) ==
    /\ frame[t].pc = "wait"
    /\ frame' = [frame EXCEPT ![t].pc = "content", ![t].product_found = TRUE]
    /\ hist' = [hist EXCEPT ![t] = Touch(@, inst.page)]
    /\ UNCHANGED <<max_pages, inst, opened, closes, started, html, parsed>>

WaitTimesOut_fails(t) ==
    LET f == frame[t]
        more == f.selector < Len(selectors_to_try)
    IN  /\ f.pc = "wait"
        /\ frame' = IF more THEN [frame EXCEPT ![t].selector = f.selector + 1]
                     ELSE [frame EXCEPT ![t] = Fetched(@, NoContent)]
        /\ hist' = IF more THEN [hist EXCEPT ![t] = Touch(@, inst.page)]
                    ELSE [hist EXCEPT ![t].served = Append(@, NoContent)]
        /\ UNCHANGED <<max_pages, inst, opened, closes, started, html, parsed>>

WaitTimesOut(t) ==
    LET f == frame[t]
    IN  /\ f.pc = "wait"
        /\ frame' = IF f.selector < Len(selectors_to_try)
                     THEN [frame EXCEPT ![t].selector = f.selector + 1]
                     ELSE [frame EXCEPT ![t].pc = "content"]
        /\ hist' = [hist EXCEPT ![t] = Touch(@, inst.page)]
        /\ UNCHANGED <<max_pages, inst, opened, closes, started, html, parsed>>

ContentOk(t) ==
    /\ frame[t].pc = "content"
    /\ \E c \in PageContents(frame[t].page_num) :
           frame' = [frame EXCEPT ![t].pc = "sleep", ![t].content = c]
    /\ UNCHANGED <<max_pages, inst, opened, closes, started, hist, html, parsed>>

SleepOk(t) ==
    LET f == frame[t]
    IN  /\ f.pc = "sleep"
        /\ frame' = [frame EXCEPT ![t] = Fetched(@, f.content)]
        /\ hist' = [hist EXCEPT ![t].served = Append(@, f.content),
                                 ![t].sleeps = @ + 1]
        /\ UNCHANGED <<max_pages, inst, opened, closes, started, html, parsed>>

(***************************************************************************)
(* _cleanup_browser: page, context, browser, driver, each closed if the    *)
(* attribute is truthy.  Any Exception, the AttributeError of an attribute *)
(* that was never set included, is logged and ends the cleanup.            *)
(***************************************************************************)
CleanupField ==
    [ cleanup_page |-> "page", cleanup_context |-> "context",
      cleanup_browser |-> "browser", cleanup_playwright |-> "playwright" ]

CleanupNext ==
    [ cleanup_page |-> "cleanup_context", cleanup_context |-> "cleanup_browser",
      cleanup_browser |-> "cleanup_playwright", cleanup_playwright |-> "search_exit" ]

\* The observation once the step at pc has completed without raising.
Cleaned(h, pc) ==
    [h EXCEPT !.cleanup = IF CleanupNext[pc] = "search_exit" THEN "done" ELSE @]

CleanupSkips(t) ==
    LET f == frame[t]
    IN  /\ f.pc \in DOMAIN CleanupField
        /\ inst[CleanupField[f.pc]].st = "None"
        /\ Goes(t, [f EXCEPT !.pc = CleanupNext[f.pc]], Cleaned(hist[t], f.pc))
        /\ UNCHANGED <<max_pages, inst, opened, closes, started, html, parsed>>

CleanupAttributeError(t) ==
    LET f == frame[t]
    IN  /\ f.pc \in DOMAIN CleanupField
        /\ inst[CleanupField[f.pc]].st = "unset"
        /\ Goes(t, [f EXCEPT !.pc = "search_exit"], [hist[t] EXCEPT !.cleanup = "done"])
        /\ UNCHANGED <<max_pages, inst, opened, closes, started, html, parsed>>

CloseOk(t) ==
    LET f == frame[t]
        field == CleanupField[f.pc]
    IN  /\ f.pc \in DOMAIN CleanupField
        /\ inst[field].st = "obj"
        /\ closes' = [closes EXCEPT ![<<field, inst[field].h>>] = @ + 1]
        /\ Goes(t, [f EXCEPT !.pc = CleanupNext[f.pc]],
                Touch(Cleaned(hist[t], f.pc), inst[field]))
        /\ UNCHANGED <<max_pages, inst, opened, started, html, parsed>>

CloseFails(t) ==
    LET f == frame[t]
    IN  /\ f.pc \in DOMAIN CleanupField
        /\ inst[CleanupField[f.pc]].st = "obj"
        /\ Goes(t, [f EXCEPT !.pc = "search_exit"],
                Touch([hist[t] EXCEPT !.cleanup = "done"], inst[CleanupField[f.pc]]))
        /\ UNCHANGED <<max_pages, inst, opened, closes, started, html, parsed>>

CloseCancelled(t) ==
    LET f == frame[t]
    IN  /\ f.pc \in DOMAIN CleanupField
        /\ inst[CleanupField[f.pc]].st = "obj"
        /\ hist[t].cancelled_at = "none"
        /\ Goes(t, [f EXCEPT !.pc = "search_exit", !.exc = "CancelledError"],
                Touch([hist[t] EXCEPT !.cleanup = "aborted", !.cancelled_at = "cleanup"],
                      inst[CleanupField[f.pc]]))
        /\ UNCHANGED <<max_pages, inst, opened, closes, started, html, parsed>>

(***************************************************************************)
(* Specifications.  Spec: one caller issues its runs one after another.    *)
(* FairSpec: a run that has started keeps being scheduled (the event loop  *)
(* resumes the task, and every await of the code is bounded by a timeout). *)
(***************************************************************************)
RunStep(t) ==
    \/ SetupOk(t) \/ SetupFails(t) \/ SetupCancelled(t)
    \/ NextPage(t) \/ LoopEnds(t)
    \/ GotoOk(t) \/ WaitFound(t) \/ WaitTimesOut(t) \/ ContentOk(t) \/ SleepOk(t)
    \/ FetchFails(t) \/ FetchCancelled(t)
    \/ CleanupSkips(t) \/ CleanupAttributeError(t)
    \/ CloseOk(t) \/ CloseFails(t) \/ CloseCancelled(t)

Next == \E t \in {"t1"} : Start(t) \/ RunStep(t)

Spec == Init /\ [][Next]_vars

FairSpec == Spec /\ WF_vars(\E t \in {"t1"} : RunStep(t))

(***************************************************************************)
(* ConcSpec: two caller tasks share one scraper instance; their runs may   *)
(* overlap, the event loop resuming either at each await.  The top of the  *)
(* page loop is no await: the task there goes on before any other runs.    *)
(* The instance is configured for a single page and each call asks for     *)
(* one.                                                                    *)
(***************************************************************************)
\* No other task is in the middle of code that does not await.
Scheduled(t) == \A u \in Tasks \ {t} : frame[u].pc # "loop"

ConcInit ==
    /\ max_pages = 1
    /\ RunInit
    /\ html = <<>>
    /\ parsed = None

ConcNext == \E t \in Tasks : Scheduled(t) /\ (StartWith(t, 1) \/ RunStep(t))

ConcSpec == ConcInit /\ [][ConcNext]_vars

(***************************************************************************)
(* ParserSpec: parse_product_listings applied to every synthetic document. *)
(***************************************************************************)
ParserInit ==
    /\ max_pages = default_max_pages
    /\ RunInit
    /\ html \in Docs
    /\ parsed = None

ParsePage ==
    /\ ~parsed.some
    /\ parsed' = Some(parse_product_listings(html))
    /\ UNCHANGED <<max_pages, inst, opened, closes, started, frame, hist, html>>

ParserSpec == ParserInit /\ [][ParsePage]_vars

(***************************************************************************)
(* Properties of the parser (ParserSpec).                                  *)
(***************************************************************************)
\* What title extraction yields for a container.
TitleOf(element) == get_text_by_selectors(element, title_selectors)

NonBlank(o) == o.some /\ Strip(o.val) # <<>>

\* The containers of the page whose title extraction yields a non-blank string.
TitledContainers(doc) ==
    SelectSeq(product_elements(doc), LAMBDA e : NonBlank(TitleOf(e)))

\* C8: every record returned by parse_product_listings has a title that is non-empty
\* after trimming, and the records are, one for one, those of the containers whose
\* title extraction yields a non-blank string: a container whose title extraction
\* yields nothing, '' or only whitespace contributes no record.
C8_TitleNonEmpty ==
    parsed.some =>
        /\ \A i \in 1 .. Len(parsed.val) : Strip(parsed.val[i].title) # <<>>
        /\ Len(parsed.val) = Len(TitledContainers(html))
        /\ \A i \in 1 .. Len(parsed.val) :
               parsed.val[i].title = Strip(TitleOf(TitledContainers(html)[i]).val)

\* A page was parsed that has a container whose title extraction yields only
\* whitespace (from a title attribute) next to a container that yields a record.
C8_Witness ==
    /\ parsed.some
    /\ Len(parsed.val) = 1
    /\ \E i \in 1 .. Len(product_elements(html)) :
           LET title == TitleOf(product_elements(html)[i])
           IN  title.some /\ title.val # <<>> /\ Strip(title.val) = <<>>

\* C9: every record returned by parse_product_listings has a price that is a
\* non-empty string or exactly "N/A", never the empty string.
C9_PriceNeverEmpty ==
    parsed.some => \A i \in 1 .. Len(parsed.val) : parsed.val[i].price # <<>>

\* The image candidate of a container at a cascade position: attribute k of the node
\* selector i finds.
Candidate(element, i, k) ==
    LET node == SelectOne(element, image_selectors[i])
    IN  IF node.found = "node" THEN Get(node, image_attrs[k]) ELSE None

HasUrlPrefix(url) ==
    \/ Len(url) >= 4 /\ SubSeq(url, 1, 4) = <<"h", "t", "t", "p">>
    \/ Len(url) >= 2 /\ SubSeq(url, 1, 2) = <<"/", "/">>

ImagePositions == (1 .. Len(image_selectors)) \X (1 .. Len(image_attrs))

Earlier(p, q) == p[1] < q[1] \/ (p[1] = q[1] /\ p[2] < q[2])

ValidAt(element, p) ==
    LET c == Candidate(element, p[1], p[2]) IN c.some /\ HasUrlPrefix(c.val)

\* The first candidate, in selector and then attribute order, with a valid prefix.
FirstValidImage(element) ==
    IF \E p \in ImagePositions : ValidAt(element, p)
    THEN LET p == CHOOSE q \in ImagePositions :
                      /\ ValidAt(element, q)
                      /\ \A r \in ImagePositions : Earlier(r, q) => ~ValidAt(element, r)
         IN  Candidate(element, p[1], p[2]).val
    ELSE <<>>

\* C10: every record's image URL is empty or begins with "http" or "//", and it is
\* the first candidate (selectors in cascade order, then src, data-src,
\* data-original) that has such a prefix: a candidate without one is passed over.
C10_ImageValid ==
    parsed.some =>
        /\ Len(parsed.val) = Len(TitledContainers(html))
        /\ \A i \in 1 .. Len(parsed.val) :
               /\ parsed.val[i].image_url = <<>> \/ HasUrlPrefix(parsed.val[i].image_url)
               /\ parsed.val[i].image_url = FirstValidImage(TitledContainers(html)[i])

\* A record whose image comes from a later cascade selector, the first selector's
\* node holding a src without a valid prefix.
C10_Witness ==
    /\ parsed.some
    /\ \E i \in 1 .. Len(parsed.val) :
           LET e == TitledContainers(html)[i]
           IN  /\ Truthy(Candidate(e, 1, 1))
               /\ \A k \in 1 .. Len(image_attrs) : ~ValidAt(e, <<1, k>>)
               /\ parsed.val[i].image_url = Https

\* The cascade positions whose selector matches at least one node of the page.
MatchingPositions(doc) ==
    { k \in 1 .. Len(product_selectors) :
          \E j \in 1 .. Len(doc) : product_selectors[k] \in doc[j].match }

\* The matches, in document order, of the first cascade selector that matches.
WinningMatches(doc) ==
    IF MatchingPositions(doc) = {} THEN <<>>
    ELSE LET k == CHOOSE w \in MatchingPositions(doc) :
                      \A o \in MatchingPositions(doc) : w <= o
         IN  SelectSeq(doc, LAMBDA e : product_selectors[k] \in e.match)

\* C11: the containers parsed for a page are exactly the matches, in document
\* order, of the first selector of the cascade that matches at least one node;
\* the records are those of these containers alone, one for each whose title is
\* not blank, and a page that no selector matches yields the empty list.
C11_FirstMatchWins ==
    parsed.some =>
        LET titled == SelectSeq(WinningMatches(html), LAMBDA e : NonBlank(TitleOf(e)))
        IN  /\ product_elements(html) = WinningMatches(html)
            /\ Len(parsed.val) = Len(titled)
            /\ \A i \in 1 .. Len(parsed.val) :
                   parsed.val[i].title = Strip(TitleOf(titled[i]).val)
            /\ MatchingPositions(html) = {} => parsed.val = <<>>

\* A page was parsed whose first container matches only a lower selector of the
\* cascade and whose second matches the first selector: one record, the second's.
C11_Witness ==
    /\ parsed.some
    /\ Len(html) = 2
    /\ html[1].match = {"._75nlfW"}
    /\ html[2].match = {"[data-id]"}
    /\ NonBlank(TitleOf(html[1]))
    /\ Len(parsed.val) = 1

(***************************************************************************)
(* Properties of a run (Spec, FairSpec).                                   *)
(***************************************************************************)
Returned(t) == frame[t].pc = "returned"

\* The number of pages a run is to fetch.
Clamp(pages) == IF pages <= max_pages THEN pages ELSE max_pages

\* C1: whichever way the call exits (normal completion, a page-level error, a setup
\* failure, a cancellation during setup or the page loop), _cleanup_browser has run
\* to its end before the call returns or raises to its caller.
C1_CleanupBeforeExit ==
    \A t \in Tasks :
        Returned(t) /\ hist[t].cancelled_at # "cleanup" => hist[t].cleanup = "done"

\* A run cancelled during the page loop has raised the cancellation to its caller,
\* after the cleanup.
C1_Witness ==
    \E t \in Tasks :
        /\ Returned(t)
        /\ hist[t].cancelled_at = "loop"
        /\ frame[t].outcome = "raised"
        /\ frame[t].exc = "CancelledError"
        /\ hist[t].cleanup = "done"

\* C2 as stated: a run whose browser setup failed ends by raising an error to the
\* caller (Failed), not by returning.
C2_SetupFailurePropagates ==
    \A t \in Tasks :
        Returned(t) /\ hist[t].setup = "failed" =>
            frame[t].outcome = "raised" /\ frame[t].exc = "Error"

\* C2 amended: a setup failure is absorbed.  search_products returns the empty list
\* after the cleanup, no page is fetched, nothing is inserted, and scrape_and_save
\* returns 0; and no Exception ever leaves scrape_and_save: a run raises to its
\* caller only when it was cancelled, and then the cancellation.
C2_SetupFailureAbsorbed ==
    \A t \in Tasks :
        /\ Returned(t) /\ hist[t].setup = "failed" /\ hist[t].cancelled_at = "none" =>
              /\ hist[t].search = "returned"
              /\ frame[t].outcome = "returned"
              /\ frame[t].result = 0
              /\ frame[t].all_products = <<>>
              /\ hist[t].fetched = <<>>
              /\ hist[t].db_calls = <<>>
        /\ Returned(t) =>
              /\ frame[t].exc \in {"none", "CancelledError"}
              /\ frame[t].outcome = "raised" <=> frame[t].exc = "CancelledError"
              /\ frame[t].outcome = "raised" <=> hist[t].cancelled_at # "none"

\* A run whose setup failed has returned 0 to its caller.
C2_Witness ==
    \E t \in Tasks :
        /\ Returned(t)
        /\ hist[t].setup = "failed"
        /\ hist[t].cancelled_at = "none"
        /\ frame[t].outcome = "returned"
        /\ hist[t].cleanup = "done"

\* C3: the fetches a run issues are for the page numbers 1, 2, ... in that order,
\* each once, never beyond min(pages, max_pages); and a run whose setup succeeded
\* and whose page loop was not cancelled has issued exactly min(pages, max_pages).
C3_PageClamp ==
    \A t \in Tasks :
        /\ \A i \in 1 .. Len(hist[t].fetched) : hist[t].fetched[i].page = i
        /\ Len(hist[t].fetched) <= Clamp(frame[t].pages)
        /\ Returned(t) /\ hist[t].setup = "ok" /\ hist[t].cancelled_at # "loop" =>
              Len(hist[t].fetched) = Clamp(frame[t].pages)

\* A run asked for more pages than the configured maximum has ended having fetched
\* the maximum.
C3_Witness ==
    \E t \in Tasks :
        /\ Returned(t)
        /\ hist[t].setup = "ok"
        /\ hist[t].cancelled_at = "none"
        /\ frame[t].pages > max_pages
        /\ max_pages > 1
        /\ Len(hist[t].fetched) = max_pages

\* The titles a page is to contribute: those of the listing's two products, in
\* document order, when page number n was served its listing; none otherwise.
PageTitles(content, n) ==
    IF content = Html(ListingDoc(n))
    THEN << <<"A", PageChar[n]>>, <<"B", PageChar[n]>> >>
    ELSE <<>>

RECURSIVE TitlesUpTo(_, _)
TitlesUpTo(served, n) ==
    IF n = 0 THEN <<>>
    ELSE TitlesUpTo(served, n - 1) \o PageTitles(served[n], n)

\* C4: the aggregate is the concatenation, in ascending page order, of the records
\* of the pages fetched and parsed so far, a page whose fetch failed contributing
\* none; and a run whose page loop was not cancelled has fetched every page up to
\* the clamp, whatever failed before.
C4_DegradedContinuation ==
    \A t \in Tasks :
        /\ [i \in 1 .. Len(frame[t].all_products) |-> frame[t].all_products[i].title]
              = TitlesUpTo(hist[t].served, Len(hist[t].served))
        /\ Returned(t) /\ hist[t].setup = "ok" /\ hist[t].cancelled_at # "loop" =>
              Len(hist[t].served) = Clamp(frame[t].pages)

\* Page 2 of 3 failed to fetch; the run has gone on to page 3 and returned the
\* records of pages 1 and 3 in that order.
C4_Witness ==
    \E t \in Tasks :
        /\ Returned(t)
        /\ hist[t].served = << Html(ListingDoc(1)), NoContent, Html(ListingDoc(3)) >>
        /\ Len(frame[t].all_products) = 4
        /\ frame[t].all_products[1].title = <<"A", "1">>
        /\ frame[t].all_products[4].title = <<"B", "3">>

\* An upper bound on the steps a run still has to take: those of the cleanup, of
\* the pages not yet started, of the page being fetched, and of the setup.
StepsPerPage == Len(selectors_to_try) + 4

StepsAfterLoop ==
    [ cleanup_page |-> 5, cleanup_context |-> 4, cleanup_browser |-> 3,
      cleanup_playwright |-> 2, search_exit |-> 1, returned |-> 0, idle |-> 0 ]

StepsInPage(f) ==
    CASE f.pc = "loop" -> 1
      [] f.pc = "goto" -> StepsPerPage
      [] f.pc = "wait" -> StepsPerPage - f.selector
      [] f.pc = "content" -> 3
      [] f.pc = "sleep" -> 2

StepsOfSetup ==
    [ setup_playwright |-> 4, setup_browser |-> 3, setup_context |-> 2, setup_page |-> 1 ]

StepsLeft(f) ==
    IF f.pc \in DOMAIN StepsAfterLoop THEN StepsAfterLoop[f.pc]
    ELSE IF f.pc \in DOMAIN StepsOfSetup
         THEN StepsOfSetup[f.pc] + 6 + Clamp(f.pages) * StepsPerPage
    ELSE 5 + (Clamp(f.pages) - f.page_num) * StepsPerPage + StepsInPage(f)

\* C5: a run that has started always has a step to take, every step it takes brings
\* it closer to its end (so that it comes to its end, the event loop running it),
\* and a run whose setup succeeded and that was not cancelled ends by returning a
\* count (Done): the number of records it collected, or 0 when the insert failed;
\* never by raising.
C5_CompletesDone ==
    /\ [](\A t \in Tasks : Active(t) => ENABLED RunStep(t))
    /\ [][\A t \in Tasks : RunStep(t) => StepsLeft(frame'[t]) < StepsLeft(frame[t])]_vars
    /\ [](\A t \in Tasks :
            Returned(t) /\ hist[t].setup = "ok" /\ hist[t].cancelled_at = "none" =>
                /\ frame[t].outcome = "returned"
                /\ frame[t].exc = "none"
                /\ frame[t].result \in {0, Len(frame[t].all_products)})

\* A run of three pages, one whose fetch failed, one of an unknown layout and one
\* listing with a container without a title, has returned the count 2.
C5_Witness ==
    \E t \in Tasks :
        /\ Returned(t)
        /\ hist[t].setup = "ok"
        /\ hist[t].cancelled_at = "none"
        /\ hist[t].served = << NoContent, Html(DocMiss), Html(ListingDoc(3)) >>
        /\ frame[t].outcome = "returned"
        /\ frame[t].result = 2

\* The run that made a handle has exited.
Exited(run) ==
    /\ run <= started
    /\ \A t \in Tasks : frame[t].run = run => Returned(t)

\* C6: every page, context, browser and driver that was created is closed exactly
\* once: never a second time, and not left open once the run that created it has
\* exited.
C6_PairedRelease ==
    \A h \in opened :
        /\ closes[h] <= 1
        /\ Exited(h[2]) => closes[h] = 1

\* The call of insert_products_batch a run made, if it made one.
ReportedCount(call) == IF call.commit = "ok" THEN Len(call.products) ELSE 0

\* C7 as stated: a run that completes has handed its aggregate, the empty one
\* included, to insert_products_batch once, after the release, and returns the
\* count the call reported.
C7_BatchAlwaysHandedOver ==
    \A t \in Tasks :
        Returned(t) /\ hist[t].search = "returned" =>
            /\ Len(hist[t].db_calls) = 1
            /\ hist[t].db_calls[1].products = frame[t].all_products
            /\ hist[t].db_calls[1].cleanup = "done"
            /\ hist[t].db_calls[1].commit # "raise"
            /\ frame[t].result = ReportedCount(hist[t].db_calls[1])

\* C7 amended: insert_products_batch is never called before the call chain ends; a
\* run that completes with a non-empty aggregate has handed the whole aggregate to
\* it once, after the release, and returns the count the call reported, or 0 when
\* the call raised; a run that completes with the empty aggregate makes no call and
\* returns 0.
C7_BatchAtEnd ==
    \A t \in Tasks :
        /\ hist[t].db_calls # <<>> => Returned(t) /\ hist[t].search = "returned"
        /\ Returned(t) /\ hist[t].search = "returned" =>
              IF frame[t].all_products = <<>>
              THEN hist[t].db_calls = <<>> /\ frame[t].result = 0
              ELSE /\ Len(hist[t].db_calls) = 1
                   /\ hist[t].db_calls[1].products = frame[t].all_products
                   /\ hist[t].db_calls[1].cleanup = "done"
                   /\ frame[t].result = IF hist[t].db_calls[1].commit = "raise" THEN 0
                                        ELSE ReportedCount(hist[t].db_calls[1])

\* A run has handed four records to insert_products_batch, whose commit failed, and
\* has returned the 0 it reported.
C7_Witness ==
    \E t \in Tasks :
        /\ Returned(t)
        /\ Len(frame[t].all_products) = 4
        /\ Len(hist[t].db_calls) = 1
        /\ hist[t].db_calls[1].commit = "sqlerror"
        /\ frame[t].result = 0

\* C12: of two runs on the same instance that overlap in time, neither navigates,
\* waits on, reads or closes a page, context, browser or driver that the other
\* acquired.
C12_SessionIsolation ==
    \A t \in Tasks : ~hist[t].foreign

\* C13: every call of _get_page_content that has returned, with the markup or with
\* None, has performed the delay between requests once.
C13_DelayPerFetch ==
    \A t \in Tasks : hist[t].sleeps = Len(hist[t].served)

\* Where a run is once the teardown step at pc is over: at the teardown of the next
\* resource or, after the driver's, back in its caller.
AfterTeardown(pc) ==
    IF CleanupNext[pc] = "search_exit" THEN "returned" ELSE CleanupNext[pc]

\* C14: _cleanup_browser tears down page, context, browser and driver in that
\* order, and a failure while tearing one of them down is not raised and does not
\* end the teardown: every step of it that is not a cancellation goes on to the
\* teardown of the next resource in the order.
C14_BestEffortTeardown ==
    [][\A t \in Tasks :
           /\ frame[t].pc \in DOMAIN CleanupField
           /\ frame'[t].pc # frame[t].pc
           /\ hist'[t].cancelled_at = hist[t].cancelled_at
           => frame'[t].pc = AfterTeardown(frame[t].pc)]_vars

\* The readiness wait of a fetch: the selector being waited for, in the listed
\* order; once the wait is over, either one has appeared or all have been tried.
ReadinessInOrder(f) ==
    /\ f.pc = "wait" => f.selector \in 1 .. Len(selectors_to_try) /\ ~f.product_found
    /\ f.pc \in {"content", "sleep"} =>
           /\ f.selector \in 1 .. Len(selectors_to_try)
           /\ f.product_found \/ f.selector = Len(selectors_to_try)

\* A step of a fetch that is past the navigation and is not cancelled.
ReadinessStep(t) ==
    LET f == frame[t]
        g == frame'[t]
    IN  /\ f.pc = "wait" /\ g.pc = "wait" => g.selector = f.selector + 1
        /\ f.pc = "wait" /\ g # f => g.pc \in {"wait", "content"}
        /\ f.pc = "wait" /\ g.pc = "content" =>
               /\ g.selector = f.selector
               /\ g.product_found \/ f.selector = Len(selectors_to_try)
        /\ f.pc = "sleep" /\ g # f =>
               /\ f.content.kind = "html"
               /\ g.pc = "loop"
               /\ hist'[t].served = Append(hist[t].served, f.content)
               /\ g.all_products = f.all_products \o parse_product_listings(f.content.doc)

\* C15: after the navigation the readiness selectors are waited for in their
\* listed order, one at a time, and none after one has appeared; when none has
\* appeared the fetch goes on to read the markup all the same, and the markup
\* read, whether a selector appeared or not, is returned and parsed.
C15_DegradedRead ==
    /\ [](\A t \in Tasks :
            /\ ReadinessInOrder(frame[t])
            /\ frame[t].pc = "content" => ENABLED ContentOk(t))
    /\ [][\A t \in Tasks :
             hist'[t].cancelled_at = hist[t].cancelled_at => ReadinessStep(t)]_vars

\* None of the readiness selectors has appeared, and the listing has been read.
C15_Witness ==
    \E t \in Tasks :
        /\ frame[t].pc = "sleep"
        /\ ~frame[t].product_found
        /\ frame[t].selector = Len(selectors_to_try)
        /\ frame[t].content = Html(ListingDoc(frame[t].page_num))

=============================================================================
